---- MODULE Spec2Model ----
(***************************************************************************)
(* A model of the METAR decoder of gswx (src/src/gswx_classes.py).         *)
(*                                                                         *)
(* A report is a sequence of one-character strings, a token is the same;   *)
(* str.split, str.endswith, the `in` substring test, int(), re.match and   *)
(* datetime.strptime are modelled on those character sequences.  One       *)
(* PointMETAR object is decoded stage by stage; a caller then constructs a *)
(* second PointMETAR, on the same or on a related report, while the wall   *)
(* clock may advance.                                                      *)
(***************************************************************************)
EXTENDS Integers, Sequences, FiniteSets, TLC

(***************************************************************************)
(* Bounds of the model.                                                    *)
(***************************************************************************)
\* most extra groups (cloud, weather, CAVOK ...) in a generated report
MaxExtra == 2
\* most table keys / stray characters concatenated into one weather token
MaxWxPieces == 3
\* most days the wall clock advances during a run
MaxTicks == 2

(***************************************************************************)
(* Characters and Python string primitives.                                *)
(***************************************************************************)
DigitChars == <<"0", "1", "2", "3", "4", "5", "6", "7", "8", "9">>

IsDigit(c) == \E i \in 1..10 : DigitChars[i] = c

DigitVal(c) == (CHOOSE i \in 1..10 : DigitChars[i] = c) - 1

Range(s) == {s[i] : i \in 1..Len(s)}

Min(a, b) == IF a < b THEN a ELSE b

\* s[:n] for n >= 0
Prefix(s, n) == SubSeq(s, 1, Min(n, Len(s)))

\* s[n:] for n >= 0 (0-based n)
Suffix(s, n) == IF n >= Len(s) THEN <<>> ELSE SubSeq(s, n + 1, Len(s))

\* s[:-n] for n > 0
DropLast(s, n) == IF n >= Len(s) THEN <<>> ELSE SubSeq(s, 1, Len(s) - n)

\* p.endswith(suf)
EndsWith(p, suf) ==
    /\ Len(p) >= Len(suf)
    /\ SubSeq(p, Len(p) - Len(suf) + 1, Len(p)) = suf

\* sub in p, for strings
Contains(p, sub) ==
    \E i \in 1..(Len(p) - Len(sub) + 1) : \A k \in 1..Len(sub) : p[i + k - 1] = sub[k]

\* tok in parts, for lists
InList(parts, tok) == \E i \in 1..Len(parts) : parts[i] = tok

\* parts.index(tok), 1-based; 0 stands for the ValueError of a missing element
IndexOf(parts, tok) ==
    IF InList(parts, tok)
    THEN CHOOSE i \in 1..Len(parts) :
            /\ parts[i] = tok
            /\ \A j \in 1..(i - 1) : parts[j] # tok
    ELSE 0

\* [p for p in parts if P(p)], as the indices of the kept elements in order
RECURSIVE SelectIdx(_, _, _)
SelectIdx(parts, keep, i) ==
    IF i > Len(parts) THEN <<>>
    ELSE (IF keep[i] THEN <<i>> ELSE <<>>) \o SelectIdx(parts, keep, i + 1)

\* s.split(sep) with an explicit one-character separator: no collapsing of
\* repeated separators, the empty string splits into one empty token
RECURSIVE SplitFrom(_, _, _, _)
SplitFrom(s, sep, i, cur) ==
    IF i > Len(s) THEN <<cur>>
    ELSE IF s[i] = sep THEN <<cur>> \o SplitFrom(s, sep, i + 1, <<>>)
    ELSE SplitFrom(s, sep, i + 1, Append(cur, s[i]))

Split(s, sep) == SplitFrom(s, sep, 1, <<>>)

\* " ".join(tokens) on character sequences
RECURSIVE JoinChars(_, _)
JoinChars(tokens, sep) ==
    IF Len(tokens) = 0 THEN <<>>
    ELSE IF Len(tokens) = 1 THEN tokens[1]
    ELSE tokens[1] \o <<sep>> \o JoinChars(Tail(tokens), sep)

\* " ".join(names) on display names (TLA+ strings)
RECURSIVE JoinStr(_)
JoinStr(names) ==
    IF Len(names) = 0 THEN ""
    ELSE IF Len(names) = 1 THEN names[1]
    ELSE names[1] \o " " \o JoinStr(Tail(names))

\* value of a run of digits and underscores, left to right
RECURSIVE DigitsVal(_, _)
DigitsVal(s, acc) ==
    IF Len(s) = 0 THEN acc
    ELSE IF s[1] = "_" THEN DigitsVal(Tail(s), acc)
    ELSE DigitsVal(Tail(s), 10 * acc + DigitVal(s[1]))

\* int(s) for a str s without whitespace: an optional sign, then decimal
\* digits in which single underscores may separate digits; anything else is
\* ValueError (ok = FALSE)
PyInt(s) ==
    LET signed == Len(s) > 0 /\ s[1] \in {"+", "-"}
        body == IF signed THEN Tail(s) ELSE s
        wellformed ==
            /\ Len(body) > 0
            /\ IsDigit(body[1])
            /\ IsDigit(body[Len(body)])
            /\ \A i \in 1..Len(body) : IsDigit(body[i]) \/ body[i] = "_"
            /\ \A i \in 1..(Len(body) - 1) : ~(body[i] = "_" /\ body[i + 1] = "_")
    IN  IF wellformed
        THEN [ok |-> TRUE,
              val |-> IF signed /\ s[1] = "-" THEN 0 - DigitsVal(body, 0)
                      ELSE DigitsVal(body, 0)]
        ELSE [ok |-> FALSE, val |-> 0]

(***************************************************************************)
(* Code tables.                                                            *)
(***************************************************************************)
\* METAR_WXCODES: code -> display name (the severity flag is never read)
METAR_WXCODES ==
    << [key |-> <<"B", "R">>, name |-> "mist"],
       [key |-> <<"D", "S">>, name |-> "dust storm"],
       [key |-> <<"D", "U">>, name |-> "widespread dust"],
       [key |-> <<"D", "Z">>, name |-> "drizzle"],
       [key |-> <<"F", "G">>, name |-> "fog"],
       [key |-> <<"F", "C">>, name |-> "tornado"],
       [key |-> <<"F", "U">>, name |-> "smoke"],
       [key |-> <<"G", "R">>, name |-> "hail"],
       [key |-> <<"G", "S">>, name |-> "small hail"],
       [key |-> <<"H", "Z">>, name |-> "haze"],
       [key |-> <<"I", "C">>, name |-> "ice crystals"],
       [key |-> <<"P", "L">>, name |-> "ice pellets"],
       [key |-> <<"P", "O">>, name |-> "dust devils"],
       [key |-> <<"R", "A">>, name |-> "rain"],
       [key |-> <<"S", "A">>, name |-> "sand"],
       [key |-> <<"S", "G">>, name |-> "snow grains"],
       [key |-> <<"S", "H">>, name |-> "shower"],
       [key |-> <<"S", "N">>, name |-> "snow"],
       [key |-> <<"S", "Q">>, name |-> "squall"],
       [key |-> <<"S", "S">>, name |-> "sandstorm"],
       [key |-> <<"T", "S">>, name |-> "thunderstorm"],
       [key |-> <<"V", "A">>, name |-> "volcanic ash"],
       [key |-> <<"U", "P">>, name |-> "unidentified precip"] >>

\* METAR_WXMODS: code -> (display name, order)
METAR_WXMODS ==
    << [key |-> <<"+">>, name |-> "heavy", order |-> 100],
       [key |-> <<"-">>, name |-> "slight", order |-> 100],
       [key |-> <<"B", "C">>, name |-> "patches", order |-> 0 - 5],
       [key |-> <<"B", "L">>, name |-> "blowing", order |-> 5],
       [key |-> <<"D", "R">>, name |-> "low drifting", order |-> 4],
       [key |-> <<"F", "Z">>, name |-> "freezing", order |-> 6],
       [key |-> <<"M", "I">>, name |-> "shallow", order |-> 3],
       [key |-> <<"V", "C">>, name |-> "in vicinity", order |-> 0 - 6],
       [key |-> <<"R", "E">>, name |-> "recent", order |-> 2] >>

\* CLOUDS: type -> display name (the octas are never read)
CLOUDS ==
    << [key |-> <<"S", "K", "C">>, name |-> "clear"],
       [key |-> <<"N", "S", "C">>, name |-> "no significant clouds"],
       [key |-> <<"F", "E", "W">>, name |-> "few"],
       [key |-> <<"S", "C", "T">>, name |-> "scattered"],
       [key |-> <<"B", "K", "N">>, name |-> "broken"],
       [key |-> <<"O", "V", "C">>, name |-> "overcase"],
       [key |-> <<"C", "B">>, name |-> "cumulonimbus"],
       [key |-> <<"T", "C", "U">>, name |-> "thunderstorm"] >>

\* key in TABLE.keys()
HasKey(table, k) == \E i \in 1..Len(table) : table[i].key = k

\* TABLE[key], for a key the table has
Lookup(table, k) == table[CHOOSE i \in 1..Len(table) : table[i].key = k]

\* any(key in part for key in TABLE)
ContainsKey(table, part) == \E i \in 1..Len(table) : Contains(part, table[i].key)

tokCAVOK == <<"C", "A", "V", "O", "K">>
tokRMK == <<"R", "M", "K">>
tokAUTO == <<"A", "U", "T", "O">>
tokNSC == <<"N", "S", "C">>
tokSKC == <<"S", "K", "C">>

(***************************************************************************)
(* Timestamp: lines 141-148.                                               *)
(***************************************************************************)
\* self.timestamp = None
NoneTime == [ok |-> FALSE, year |-> 0, month |-> 0, day |-> 0, hour |-> 0, minute |-> 0]

\* n written with exactly `width` decimal digits (strftime "%Y", "%m")
RECURSIVE Pad(_, _)
Pad(n, width) ==
    IF width = 0 THEN <<>>
    ELSE Append(Pad(n \div 10, width - 1), DigitChars[(n % 10) + 1])

\* d.strftime("%Y%d"): the day where the month belongs
StrfYd(dd) == Pad(dd.year, 4) \o Pad(dd.day, 2)

\* d.strftime("%Y%m")
StrfYm(d) == Pad(d.year, 4) \o Pad(d.month, 2)

IsLeap(y) == (y % 4 = 0 /\ y % 100 # 0) \/ y % 400 = 0

DaysInMonth(y, mo) ==
    IF mo = 2 THEN (IF IsLeap(y) THEN 29 ELSE 28)
    ELSE IF mo \in {4, 6, 9, 11} THEN 30 ELSE 31

\* the alternatives of the strptime directives %m, %d, %H, %M on a slice of
\* one or two digits (the regular expressions of _strptime.TimeRE)
FieldOk(f, t) ==
    LET a == t[1]
        b == t[Len(t)]
    IN  IF Len(t) = 2
        THEN CASE f = 1 -> (a = "1" /\ b \in {"0", "1", "2"}) \/ (a = "0" /\ b # "0")
               [] f = 2 -> \/ (a = "3" /\ b \in {"0", "1"})
                           \/ a \in {"1", "2"}
                           \/ (a = "0" /\ b # "0")
               [] f = 3 -> (a = "2" /\ b \in {"0", "1", "2", "3"}) \/ a \in {"0", "1"}
               [] f = 4 -> a \in {"0", "1", "2", "3", "4", "5"}
        ELSE CASE f = 1 -> a # "0"
               [] f = 2 -> a # "0"
               [] f = 3 -> TRUE
               [] f = 4 -> TRUE

\* the k-th way, in the matcher's order of preference (two digits before one,
\* earlier fields first), of giving %m %d %H %M their widths
Widths(k) ==
    << 2 - ((k \div 8) % 2), 2 - ((k \div 4) % 2), 2 - ((k \div 2) % 2), 2 - (k % 2) >>

\* datetime.strptime(s, "%Y%m%d%H%M%z") for s = (4+2 digits) + body + "+0000":
\* a body with a non-digit cannot match; otherwise the first assignment of
\* widths that consumes every digit wins, and the date must exist
StrpTime(prefix, body) ==
    LET r == Suffix(prefix, 4) \o body
        fits(k) ==
            LET w == Widths(k)
            IN  /\ w[1] + w[2] + w[3] + w[4] = Len(r)
                /\ FieldOk(1, SubSeq(r, 1, w[1]))
                /\ FieldOk(2, SubSeq(r, w[1] + 1, w[1] + w[2]))
                /\ FieldOk(3, SubSeq(r, w[1] + w[2] + 1, w[1] + w[2] + w[3]))
                /\ FieldOk(4, SubSeq(r, w[1] + w[2] + w[3] + 1, Len(r)))
        good == {k \in 0..15 : fits(k)}
    IN  IF (\E i \in 1..Len(body) : ~IsDigit(body[i])) \/ good = {}
        THEN NoneTime
        ELSE LET k == CHOOSE x \in good : \A y \in good : x <= y
                 w == Widths(k)
                 yr == DigitsVal(Prefix(prefix, 4), 0)
                 mo == DigitsVal(SubSeq(r, 1, w[1]), 0)
                 dy == DigitsVal(SubSeq(r, w[1] + 1, w[1] + w[2]), 0)
                 hr == DigitsVal(SubSeq(r, w[1] + w[2] + 1, w[1] + w[2] + w[3]), 0)
                 mi == DigitsVal(SubSeq(r, w[1] + w[2] + w[3] + 1, Len(r)), 0)
             IN  IF dy > DaysInMonth(yr, mo) THEN NoneTime
                 ELSE [ok |-> TRUE, year |-> yr, month |-> mo, day |-> dy,
                       hour |-> hr, minute |-> mi]

\* p.endswith('Z')
IsTimestampToken(p) == EndsWith(p, <<"Z">>)

\* lines 141-148: err is "" on success
DecodeTimestamp(parts, d) ==
    LET found == SelectIdx(parts, [i \in 1..Len(parts) |-> IsTimestampToken(parts[i])], 1)
    IN  IF Len(found) = 0
        THEN [err |-> "IndexError", timestamp |-> NoneTime]
        ELSE LET t == StrpTime(StrfYm(d), DropLast(parts[found[1]], 1))
             IN  IF t.ok THEN [err |-> "", timestamp |-> t]
                 ELSE [err |-> "ValueError", timestamp |-> NoneTime]

(***************************************************************************)
(* Optional values: None is the empty tuple, a set field is a 1-tuple.     *)
(***************************************************************************)
None == <<>>

Some(v) == <<v>>

(***************************************************************************)
(* Wind: lines 150-164.                                                    *)
(***************************************************************************)
\* 'KT' in p
IsWindToken(p) == Contains(p, <<"K", "T">>)

\* the value left in self.winddir by lines 157-163: the integer when int()
\* accepts the three characters, the characters themselves otherwise
WindDir(chars) ==
    LET v == PyInt(chars)
    IN  IF v.ok THEN [isint |-> TRUE, n |-> v.val, s |-> <<>>]
        ELSE [isint |-> FALSE, n |-> 0, s |-> chars]

\* lines 151-164; assigns lists the fields in the order they were assigned
DecodeWind(parts) ==
    LET found == SelectIdx(parts, [i \in 1..Len(parts) |-> IsWindToken(parts[i])], 1)
    IN  IF Len(found) = 0
        THEN [err |-> "IndexError", windgust |-> None, winddir |-> None,
              windspd |-> None, assigns |-> <<>>]
        ELSE
        LET seg0 == DropLast(parts[found[1]], 2)
            hasG == "G" \in Range(seg0)
            sp == Split(seg0, "G")
            gust == IF hasG THEN PyInt(sp[2]) ELSE [ok |-> TRUE, val |-> 0]
            seg == IF hasG THEN sp[1] ELSE seg0
            dir == WindDir(Prefix(seg, 3))
            spd == PyInt(Suffix(seg, 3))
            dirAssigns == IF dir.isint THEN <<"winddir", "winddir">> ELSE <<"winddir">>
        IN  IF ~gust.ok
            THEN [err |-> "ValueError", windgust |-> Some(0), winddir |-> None,
                  windspd |-> None, assigns |-> <<"windgust">>]
            ELSE IF ~spd.ok
            THEN [err |-> "ValueError", windgust |-> Some(gust.val),
                  winddir |-> Some(dir), windspd |-> None,
                  assigns |-> (IF hasG THEN <<"windgust", "windgust">> ELSE <<"windgust">>)
                              \o dirAssigns]
            ELSE [err |-> "", windgust |-> Some(gust.val),
                  winddir |-> Some(dir), windspd |-> Some(spd.val),
                  assigns |-> (IF hasG THEN <<"windgust", "windgust">> ELSE <<"windgust">>)
                              \o dirAssigns \o <<"windspd">>]

(***************************************************************************)
(* Temperature and dew point: lines 166-181.                               *)
(***************************************************************************)
\* re.compile("M?[0-9]{2}/M?[0-9]{2}").match(p): anchored at the start of the
\* token only
TempMatch(p) ==
    LET i == IF Len(p) > 0 /\ p[1] = "M" THEN 2 ELSE 1
        j == IF Len(p) >= i + 3 /\ p[i + 3] = "M" THEN i + 4 ELSE i + 3
    IN  /\ Len(p) >= j + 1
        /\ IsDigit(p[i]) /\ IsDigit(p[i + 1])
        /\ p[i + 2] = "/"
        /\ IsDigit(p[j]) /\ IsDigit(p[j + 1])

\* lines 174-177 and 178-181: one side of the group
SignedTemp(side) ==
    IF "M" \in Range(side)
    THEN LET v == PyInt(Tail(side)) IN [ok |-> v.ok, val |-> 0 - v.val]
    ELSE PyInt(side)

\* lines 167-181
DecodeTemp(parts) ==
    LET found == SelectIdx(parts, [i \in 1..Len(parts) |-> TempMatch(parts[i])], 1)
    IN  IF Len(found) = 0
        THEN [err |-> "AttributeError", temp |-> None, dewpt |-> None, assigns |-> <<>>]
        ELSE
        LET sp == Split(parts[found[1]], "/")
            left == SignedTemp(sp[1])
            right == SignedTemp(sp[2])
        IN  IF Len(sp) # 2 \/ ~left.ok
            THEN [err |-> "ValueError", temp |-> None, dewpt |-> None, assigns |-> <<>>]
            ELSE IF ~right.ok
            THEN [err |-> "ValueError", temp |-> Some(left.val), dewpt |-> None,
                  assigns |-> <<"temp">>]
            ELSE [err |-> "", temp |-> Some(left.val), dewpt |-> Some(right.val),
                  assigns |-> <<"temp", "dewpt">>]

(***************************************************************************)
(* Cloud layers: parse_ceil, lines 204-230.                                *)
(***************************************************************************)
\* the membership test the wrong way round: `part in cldtype`
IsCloudTokenReversed(part) == \E i \in 1..Len(CLOUDS) : Contains(CLOUDS[i].key, part)

\* any(cldtype in part for cldtype in CLOUDS.keys()), lines 217-220
IsCloudToken(part) == ContainsKey(CLOUDS, part)

\* "{} at {}".format(name, str(int(alt) * 100)), kept as its two arguments
Layer(name, alt) == [description |-> name, altitude |-> alt * 100]

\* lines 226-230: the layers appended before the loop ends or raises
RECURSIVE FormatLayers(_, _)
FormatLayers(clayers, done) ==
    IF Len(clayers) = 0 THEN [err |-> "", clouds |-> done]
    ELSE LET layer == clayers[1]
             cloud == Prefix(layer, 3)
             alt == PyInt(Suffix(layer, 3))
         IN  IF ~HasKey(CLOUDS, cloud) THEN [err |-> "KeyError", clouds |-> done]
             ELSE IF ~alt.ok THEN [err |-> "ValueError", clouds |-> done]
             ELSE FormatLayers(Tail(clayers),
                               Append(done, Layer(Lookup(CLOUDS, cloud).name, alt.val)))

\* lines 210-230
DecodeCeil(parts) ==
    IF InList(parts, tokNSC) \/ InList(parts, tokSKC)
    THEN [err |-> "", clouds |-> <<>>]
    ELSE LET idx == SelectIdx(parts, [i \in 1..Len(parts) |-> IsCloudToken(parts[i])], 1)
         IN  FormatLayers([k \in 1..Len(idx) |-> parts[idx[k]]], <<>>)

(***************************************************************************)
(* Visibility: parse_vis, lines 232-245.                                   *)
(***************************************************************************)
RECURSIVE Gcd(_, _)
Gcd(a, b) == IF b = 0 THEN a ELSE Gcd(b, a % b)

Abs(a) == IF a < 0 THEN 0 - a ELSE a

\* the number a / b in lowest terms with a positive denominator; an int n is
\* n / 1 (Python's 10 == 10.0)
Ratio(a, b) ==
    LET g == Gcd(Abs(a), Abs(b))
        sgn == IF b < 0 THEN 0 - 1 ELSE 1
    IN  [num |-> sgn * (a \div g), den |-> sgn * (b \div g)]

\* float(s), for the literals the reports of this model can spell: signed
\* decimal integers (no '.', exponent, inf or nan)
PyFloat(s) == PyInt(s)

\* p.endswith("SM")
IsVisToken(p) == EndsWith(p, <<"S", "M">>)

\* lines 238-245
DecodeVis(parts) ==
    LET found == SelectIdx(parts, [i \in 1..Len(parts) |-> IsVisToken(parts[i])], 1)
    IN  IF Len(found) = 0 THEN [err |-> "IndexError", vis |-> None]
        ELSE
        LET numpt == DropLast(parts[found[1]], 2)
            whole == PyInt(numpt)
            sp == Split(numpt, "/")
            a == PyFloat(sp[1])
            b == PyFloat(sp[2])
        IN  IF whole.ok THEN [err |-> "", vis |-> Some(Ratio(whole.val, 1))]
            ELSE IF Len(sp) # 2 \/ ~a.ok \/ ~b.ok THEN [err |-> "ValueError", vis |-> None]
            ELSE IF b.val = 0 THEN [err |-> "ZeroDivisionError", vis |-> None]
            ELSE [err |-> "", vis |-> Some(Ratio(a.val, b.val))]

(***************************************************************************)
(* Weather: parse_wx, lines 247-303.                                       *)
(***************************************************************************)
\* any(wxc in part for wxc in METAR_WXCODES), lines 255-258
IsWxToken(part) == ContainsKey(METAR_WXCODES, part)

\* the accumulator is emptied after a code only, not after a modifier
RECURSIVE GobbleKeepsModifier(_, _, _, _)
GobbleKeepsModifier(field, gobbling, codes, modifiers) ==
    IF Len(field) = 0 THEN [codes |-> codes, modifiers |-> modifiers]
    ELSE LET g == Append(gobbling, field[1])
         IN  IF HasKey(METAR_WXCODES, g)
             THEN GobbleKeepsModifier(Tail(field), <<>>, Append(codes, g), modifiers)
             ELSE IF HasKey(METAR_WXMODS, g)
             THEN GobbleKeepsModifier(Tail(field), g, codes, Append(modifiers, g))
             ELSE GobbleKeepsModifier(Tail(field), g, codes, modifiers)

\* lines 272-279: the accumulator walks the token; a code or a modifier is
\* emitted, and the accumulator emptied, as soon as it equals a key
RECURSIVE Gobble(_, _, _, _)
Gobble(field, gobbling, codes, modifiers) ==
    IF Len(field) = 0 THEN [codes |-> codes, modifiers |-> modifiers]
    ELSE LET g == Append(gobbling, field[1])
         IN  IF HasKey(METAR_WXCODES, g)
             THEN Gobble(Tail(field), <<>>, Append(codes, g), modifiers)
             ELSE IF HasKey(METAR_WXMODS, g)
             THEN Gobble(Tail(field), <<>>, codes, Append(modifiers, g))
             ELSE Gobble(Tail(field), g, codes, modifiers)

\* the sort key without its minus sign: ascending order
SortKeyAscending(m) == IF m = <<>> THEN 0 ELSE Lookup(METAR_WXMODS, m).order

\* line 285: k = lambda m: -METAR_WXMODS[m][1] if m else 0
SortKey(m) == IF m = None THEN 0 ELSE 0 - Lookup(METAR_WXMODS, m).order

\* one step of a stable sort: x goes behind every element whose key is not
\* greater than its own
RECURSIVE InsertByKey(_, _)
InsertByKey(sorted, x) ==
    IF Len(sorted) = 0 THEN <<x>>
    ELSE IF SortKey(sorted[1]) <= SortKey(x)
    THEN <<sorted[1]>> \o InsertByKey(Tail(sorted), x)
    ELSE <<x>> \o sorted

\* line 286: modifiers.sort(key=k), a stable sort
RECURSIVE SortModifiers(_, _)
SortModifiers(modifiers, sorted) ==
    IF Len(modifiers) = 0 THEN sorted
    ELSE SortModifiers(Tail(modifiers), InsertByKey(sorted, modifiers[1]))

\* lines 282-283 and 295-301: the names, the codes' names standing where the
\* None of the modifier list is
RECURSIVE Render(_, _)
Render(modifiers, codes) ==
    IF Len(modifiers) = 0 THEN <<>>
    ELSE (IF modifiers[1] = None
          THEN [i \in 1..Len(codes) |-> Lookup(METAR_WXCODES, codes[i]).name]
          ELSE <<Lookup(METAR_WXMODS, modifiers[1]).name>>)
         \o Render(Tail(modifiers), codes)

\* lines 253-303; field is 0 when no token holds a weather code
DecodeWx(parts) ==
    LET found == SelectIdx(parts, [i \in 1..Len(parts) |-> IsWxToken(parts[i])], 1)
    IN  IF Len(found) = 0
        THEN [field |-> 0, codes |-> <<>>, modifiers |-> <<>>, output |-> <<>>,
              weather |-> "nothing!"]
        ELSE LET g == Gobble(parts[found[1]], <<>>, <<>>, <<None>>)
                 sorted == SortModifiers(g.modifiers, <<>>)
                 out == Render(sorted, g.codes)
             IN  [field |-> found[1], codes |-> g.codes, modifiers |-> g.modifiers,
                  output |-> out, weather |-> JoinStr(out)]

(***************************************************************************)
(* CAVOK dispatch: parse_cav, lines 185-202.                               *)
(***************************************************************************)
\* CAVOK looked for only where the visibility group stands: parts[3] == "CAVOK"
HasCavokInPlace(parts) == Len(parts) >= 4 /\ parts[4] = tokCAVOK

\* "CAVOK" in parts
HasCavok(parts) == InList(parts, tokCAVOK)

\* the CAVOK values assigned as defaults before the test
CavAssignsEager(parts) == <<"clouds", "vis", "weather">>

\* lines 192-196: the fields parse_cav itself assigns
CavAssigns(parts) == IF HasCavok(parts) THEN <<"clouds", "vis", "weather">> ELSE <<>>

(***************************************************************************)
(* Header: lines 120-135.                                                  *)
(***************************************************************************)
\* parts[parts.index('RMK'):], or [] when index raises ValueError
Remarks(parts) ==
    IF IndexOf(parts, tokRMK) = 0 THEN <<>>
    ELSE SubSeq(parts, IndexOf(parts, tokRMK), Len(parts))

\* the wall clock one day later
NextDay(t) ==
    IF t.day < DaysInMonth(t.year, t.month) THEN [t EXCEPT !.day = @ + 1]
    ELSE IF t.month < 12 THEN [t EXCEPT !.day = 1, !.month = @ + 1]
    ELSE [year |-> t.year + 1, month |-> 1, day |-> 1]

(***************************************************************************)
(* State.                                                                  *)
(***************************************************************************)
VARIABLES
    metar_string,   \* the report handed to the constructor
    today,          \* the wall clock: what datetime.date.today() returns
    ticks,          \* days the clock has advanced
    call,           \* 1 or 2: which PointMETAR the caller is constructing
    rel,            \* how the second report relates to the first
    first,          \* how the first construction ended, None during it
    pc,             \* the stage of parse about to run, "done" or "raised"
    err,            \* the exception class that left the constructor, or ""
    raised_in,      \* the stage that raised it, or ""
    parts,          \* the token list of parse (line 120)
    d,              \* the date read at line 145, None before
    self,           \* the fields of the PointMETAR under construction
    wx,             \* the locals of parse_wx
    writes,         \* per field, the assignments parse has made to it
    ran             \* the sub-decoders parse_cav has called

vars == << metar_string, today, ticks, call, rel, first, pc, err, raised_in,
           parts, d, self, wx, writes, ran >>

Fields == {"loc_code", "auto", "remarks", "timestamp", "winddir", "windspd",
           "windgust", "temp", "dewpt", "clouds", "vis", "weather"}

\* __init__, lines 99-113
InitSelf ==
    [temp |-> None, dewpt |-> None, windspd |-> None, winddir |-> None,
     windgust |-> None, clouds |-> <<>>, vis |-> None, press |-> None,
     auto |-> None, location |-> << <<None, None, None>> >>, loc_code |-> None,
     timestamp |-> None, weather |-> None, remarks |-> None]

NoWx == [field |-> 0, codes |-> <<>>, modifiers |-> <<>>, output |-> <<>>, weather |-> ""]

\* the assignment counts after the assignments `assigns`, in order
RECURSIVE Bump(_, _)
Bump(w, assigns) ==
    IF Len(assigns) = 0 THEN w
    ELSE Bump([w EXCEPT ![assigns[1]] = @ + 1], Tail(assigns))

\* an exception leaves parse, and with it the constructor
Raise(stage, kind) ==
    /\ pc' = "raised"
    /\ err' = kind
    /\ raised_in' = stage

Continue(stage) ==
    /\ pc' = stage
    /\ UNCHANGED << err, raised_in >>

(***************************************************************************)
(* The reports of the model.  A slot holds a list of tokens, the empty     *)
(* list when the group is absent from the report.                          *)
(***************************************************************************)
\* KGFK; KTPA holds "KT"; KCBM holds "CB"
Stations == { <<<<"K", "G", "F", "K">>>>,
            <<<<"K", "T", "P", "A">>>>,
            <<<<"K", "C", "B", "M">>>> }

\* a day every month has, a day some months lack, no timestamp
TimestampSlot == { <<<<"2", "6", "2", "3", "5", "3", "Z">>>>,
                 <<<<"3", "1", "2", "3", "5", "3", "Z">>>>,
                 <<>> }

WindSlot == { <<<<"2", "4", "0", "1", "1", "K", "T">>>>,
            <<<<"2", "4", "0", "1", "1", "G", "2", "0", "K", "T">>>>,
            <<<<"V", "R", "B", "0", "5", "K", "T">>>>,
            <<<<"A", "B", "C", "0", "5", "K", "T">>>>,
            <<<<"2", "4", "0", "X", "X", "K", "T">>>>,
            <<>> }

VisSlot == { <<<<"1", "0", "S", "M">>>>,
           <<<<"1", "/", "2", "S", "M">>>>,
           <<>> }

TempSlot == { <<<<"2", "0", "/", "0", "3">>>>,
            <<<<"M", "0", "5", "/", "M", "1", "0">>>>,
            <<>> }

RemarkSlot == { <<>>,
              <<<<"R", "M", "K">>, <<"A", "O", "2">>>> }

\* what may follow the RMK token of a second report
RemarkTails == { <<<<"C", "A", "V", "O", "K">>>>,
               <<<<"R", "A", "B", "0", "5">>>>,
               <<<<"A", "O", "2">>, <<"S", "L", "P", "9", "7", "2">>>> }

\* groups between visibility and temperature
ExtraPool == { <<"B", "K", "N", "1", "0", "0">>,
             <<"B", "K", "N", "0", "4", "0", "C", "B">>,
             <<"C", "A", "V", "O", "K">>,
             <<"S", "K", "C">>,
             <<"-", "R", "A">> }

\* what a weather token is concatenated from: keys of METAR_WXMODS, keys of
\* METAR_WXCODES, and a character of neither table
WxPieces == { <<"+">>,
            <<"-">>,
            <<"V", "C">>,
            <<"R", "A">>,
            <<"T", "S">>,
            <<"X">> }

\* the sequences over S of length 0..n
RECURSIVE SeqsUpTo(_, _)
SeqsUpTo(S, n) ==
    IF n = 0 THEN { <<>> }
    ELSE LET shorter == SeqsUpTo(S, n - 1)
         IN  shorter \cup { Append(q, x) : q \in {r \in shorter : Len(r) = n - 1}, x \in S }

\* the concatenation of a sequence of tokens into one token
RECURSIVE Flatten(_)
Flatten(pieces) == IF Len(pieces) = 0 THEN <<>> ELSE pieces[1] \o Flatten(Tail(pieces))

GoodHead == <<<<"K", "G", "F", "K">>, <<"2", "6", "2", "3", "5", "3", "Z">>, <<"2", "4", "0", "1", "1", "K", "T">>>>

GoodVis == <<<<"1", "0", "S", "M">>>>

ExtraVisSlot == { <<<<"1", "/", "2", "S", "M">>>>,
                <<>> }

GoodTemp == <<<<"2", "0", "/", "0", "3">>>>

\* every header group present, absent or malformed, under every station
HeaderReports ==
    { st \o ts \o wi \o vi \o te :
        st \in Stations, ts \in TimestampSlot, wi \in WindSlot,
        vi \in VisSlot, te \in TempSlot }

\* a decodable header, then up to MaxExtra cloud / weather / CAVOK groups,
\* with a fractional visibility or none, with or without remarks
ExtraReports ==
    { GoodHead \o vi \o ex \o GoodTemp \o rm :
        vi \in ExtraVisSlot, ex \in SeqsUpTo(ExtraPool, MaxExtra), rm \in RemarkSlot }

\* a decodable header and one weather token of up to MaxWxPieces pieces
WxReports ==
    { GoodHead \o GoodVis \o <<Flatten(w)>> \o GoodTemp :
        w \in SeqsUpTo(WxPieces, MaxWxPieces) \ { <<>> } }

Reports == { JoinChars(r, " ") : r \in HeaderReports \cup ExtraReports \cup WxReports }

\* the reports decoded twice while the calendar advances
ClockReports == { JoinChars(r, " ") : r \in HeaderReports }

\* the clock when the first report arrives: the last day of a 30-day month
StartDate == [year |-> 2026, month |-> 11, day |-> 30]

\* s with one more space after its k-th character
InsertSpace(s, k) == SubSeq(s, 1, k) \o <<" ">> \o SubSeq(s, k + 1, Len(s))

\* the spaces of s that separate two tokens in front of the RMK token (any
\* two tokens when there is no RMK token)
SpacesBeforeRmk(s) ==
    LET toks == Split(s, " ")
        r == IndexOf(toks, tokRMK)
        \* the number of spaces in s[1..k]
        nth(k) == Cardinality({j \in 1..k : s[j] = " "})
    IN  { k \in 1..Len(s) : s[k] = " " /\ (r = 0 \/ nth(k) + 1 < r) }

\* s with everything behind its RMK token replaced by `tail`
WithRemarks(s, tail) ==
    LET toks == Split(s, " ")
    IN  JoinChars(SubSeq(toks, 1, IndexOf(toks, tokRMK)) \o tail, " ")

\* the reports a caller may decode after s so as to compare the two results:
\* s with other remarks, s with a doubled space
SecondReports(s) ==
    { [rel |-> "rmk", s |-> WithRemarks(s, tail)] :
        tail \in { t \in RemarkTails :
                     /\ InList(Split(s, " "), tokRMK)
                     /\ WithRemarks(s, t) # s } }
    \cup { [rel |-> "space", s |-> InsertSpace(s, k)] : k \in SpacesBeforeRmk(s) }

(***************************************************************************)
(* Construction: PointMETAR(metar_string) runs __init__, which calls parse.*)
(***************************************************************************)
Constructed(reports) ==
    /\ metar_string \in reports
    /\ today = StartDate
    /\ ticks = 0
    /\ call = 1
    /\ rel = ""
    /\ first = None
    /\ pc = "header"
    /\ err = ""
    /\ raised_in = ""
    /\ parts = <<>>
    /\ d = None
    /\ self = InitSelf
    /\ wx = NoWx
    /\ writes = [f \in Fields |-> 0]
    /\ ran = {}

Init == Constructed(Reports)

InitClock == Constructed(ClockReports)

\* lines 120-135: split, station, AUTO flag, remarks
ParseHeader ==
    /\ pc = "header"
    /\ parts' = Split(metar_string, " ")
    /\ self' = [self EXCEPT !.loc_code = Some(parts'[1]),
                            !.auto = Some(InList(parts', tokAUTO)),
                            !.remarks = Some(Remarks(parts'))]
    /\ writes' = Bump(writes, <<"loc_code", "auto", "remarks">>)
    /\ Continue("timestamp")
    /\ UNCHANGED << metar_string, today, ticks, call, rel, first, d, wx, ran >>

\* lines 141-148: the clock is read (line 145) once a token ending in Z exists
ParseTimestamp ==
    /\ pc = "timestamp"
    /\ LET r == DecodeTimestamp(parts, today)
       IN  /\ d' = IF r.err = "IndexError" THEN d ELSE Some(today)
           /\ IF r.err = ""
              THEN /\ self' = [self EXCEPT !.timestamp = Some(r.timestamp)]
                   /\ writes' = Bump(writes, <<"timestamp">>)
                   /\ Continue("wind")
              ELSE /\ Raise("timestamp", r.err)
                   /\ UNCHANGED << self, writes >>
    /\ UNCHANGED << metar_string, today, ticks, call, rel, first, parts, wx, ran >>

\* lines 150-164
ParseWind ==
    /\ pc = "wind"
    /\ LET r == DecodeWind(parts)
       IN  /\ self' = [self EXCEPT
                         !.windgust = IF r.windgust = None THEN @ ELSE r.windgust,
                         !.winddir = IF r.winddir = None THEN @ ELSE r.winddir,
                         !.windspd = IF r.windspd = None THEN @ ELSE r.windspd]
           /\ writes' = Bump(writes, r.assigns)
           /\ IF r.err = "" THEN Continue("temp") ELSE Raise("wind", r.err)
    /\ UNCHANGED << metar_string, today, ticks, call, rel, first, parts, d, wx, ran >>

\* lines 166-181
ParseTemp ==
    /\ pc = "temp"
    /\ LET r == DecodeTemp(parts)
       IN  /\ self' = [self EXCEPT
                         !.temp = IF r.temp = None THEN @ ELSE r.temp,
                         !.dewpt = IF r.dewpt = None THEN @ ELSE r.dewpt]
           /\ writes' = Bump(writes, r.assigns)
           /\ IF r.err = "" THEN Continue("cav") ELSE Raise("temp", r.err)
    /\ UNCHANGED << metar_string, today, ticks, call, rel, first, parts, d, wx, ran >>

\* lines 183-202: parse_cav, up to its return or its call of parse_ceil
ParseCav ==
    /\ pc = "cav"
    /\ LET a == CavAssigns(parts)
           has(f) == \E i \in 1..Len(a) : a[i] = f
       IN  /\ self' = [self EXCEPT
                         !.clouds = IF has("clouds") THEN <<>> ELSE @,
                         !.vis = IF has("vis") THEN Some(Ratio(10, 1)) ELSE @,
                         !.weather = IF has("weather") THEN Some("") ELSE @]
           /\ writes' = Bump(writes, a)
    /\ IF HasCavok(parts) THEN Continue("done") ELSE Continue("ceil")
    /\ UNCHANGED << metar_string, today, ticks, call, rel, first, parts, d, wx, ran >>

\* parse_ceil, lines 204-230; self.clouds is assigned once (line 211 or 225)
\* and then grows by append
ParseCeil ==
    /\ pc = "ceil"
    /\ ran' = ran \cup {"parse_ceil"}
    /\ LET r == DecodeCeil(parts)
       IN  /\ self' = [self EXCEPT !.clouds = r.clouds]
           /\ writes' = Bump(writes, <<"clouds">>)
           /\ IF r.err = "" THEN Continue("vis") ELSE Raise("ceil", r.err)
    /\ UNCHANGED << metar_string, today, ticks, call, rel, first, parts, d, wx >>

\* parse_vis, lines 232-245
ParseVis ==
    /\ pc = "vis"
    /\ ran' = ran \cup {"parse_vis"}
    /\ LET r == DecodeVis(parts)
       IN  IF r.err = ""
           THEN /\ self' = [self EXCEPT !.vis = r.vis]
                /\ writes' = Bump(writes, <<"vis">>)
                /\ Continue("wx")
           ELSE /\ Raise("vis", r.err)
                /\ UNCHANGED << self, writes >>
    /\ UNCHANGED << metar_string, today, ticks, call, rel, first, parts, d, wx >>

\* parse_wx, lines 247-303; it has no statement that can raise
ParseWx ==
    /\ pc = "wx"
    /\ ran' = ran \cup {"parse_wx"}
    /\ wx' = DecodeWx(parts)
    /\ self' = [self EXCEPT !.weather = Some(wx'.weather)]
    /\ writes' = Bump(writes, <<"weather">>)
    /\ Continue("done")
    /\ UNCHANGED << metar_string, today, ticks, call, rel, first, parts, d >>

\* the caller, holding the first object or its exception, constructs another
\* PointMETAR on one of `choices`: __init__ (lines 99-113) starts from fresh
\* fields
Construct(choices) ==
    /\ call = 1
    /\ pc \in {"done", "raised"}
    /\ \E v \in choices :
          /\ metar_string' = v.s
          /\ rel' = v.rel
    /\ first' = Some([pc |-> pc, err |-> err, raised_in |-> raised_in,
                      self |-> self, d |-> d])
    /\ call' = 2
    /\ pc' = "header"
    /\ err' = ""
    /\ raised_in' = ""
    /\ parts' = <<>>
    /\ d' = None
    /\ self' = InitSelf
    /\ wx' = NoWx
    /\ writes' = [f \in Fields |-> 0]
    /\ ran' = {}
    /\ UNCHANGED << today, ticks >>

\* a second report that differs from the first in its remarks or by a space
ConstructSecond == Construct(SecondReports(metar_string))

\* the same report is decoded a second time
Reparse == Construct({ [rel |-> "same", s |-> metar_string] })

\* midnight passes
Tick ==
    /\ ticks < MaxTicks
    /\ today' = NextDay(today)
    /\ ticks' = ticks + 1
    /\ UNCHANGED << metar_string, call, rel, first, pc, err, raised_in, parts, d,
                    self, wx, writes, ran >>

\* two reports decoded on one day
Next ==
    \/ ParseHeader
    \/ ParseTimestamp
    \/ ParseWind
    \/ ParseTemp
    \/ ParseCav
    \/ ParseCeil
    \/ ParseVis
    \/ ParseWx
    \/ ConstructSecond

Spec == Init /\ [][Next]_vars

\* one report decoded twice while the calendar advances
NextClock ==
    \/ ParseHeader
    \/ ParseTimestamp
    \/ ParseWind
    \/ ParseTemp
    \/ ParseCav
    \/ ParseCeil
    \/ ParseVis
    \/ ParseWx
    \/ Reparse
    \/ Tick

SpecClock == InitClock /\ [][NextClock]_vars

(***************************************************************************)
(* Properties.                                                             *)
(***************************************************************************)
Ended == pc \in {"done", "raised"}

\* the second construction has ended and its report relates to the first by r
SecondEnded(r) == call = 2 /\ rel = r /\ Ended

\* C1: a report holding the token CAVOK whose timestamp, wind and temperature
\* groups decode ends with visibility 10, no cloud layers and the empty
\* weather string, whatever other groups it holds, and none of parse_ceil,
\* parse_vis, parse_wx runs.
C1_CavokShortCircuits ==
    InList(parts, tokCAVOK) =>
        /\ pc \notin {"ceil", "vis", "wx"}
        /\ ran = {}
        /\ pc = "raised" => raised_in \in {"timestamp", "wind", "temp"}
        /\ pc = "done" =>
              /\ self.vis = Some([num |-> 10, den |-> 1])
              /\ self.clouds = <<>>
              /\ self.weather = Some("")

\* a CAVOK report that also holds a cloud group and a visibility group other
\* than 10 has been decoded
C1_Witness ==
    /\ pc = "done"
    /\ InList(parts, tokCAVOK)
    /\ \E i \in 1..Len(parts) : IsCloudToken(parts[i])
    /\ InList(parts, <<"1", "/", "2", "S", "M">>)

\* C2: two reports that agree up to and including the RMK token either both
\* fail or both succeed with the same fields, remarks aside.
C2_RemarksExcluded ==
    SecondEnded("rmk") =>
        \/ pc = "raised" /\ first[1].pc = "raised"
        \/ /\ pc = "done" /\ first[1].pc = "done"
           /\ [self EXCEPT !.remarks = None] = [first[1].self EXCEPT !.remarks = None]

\* C3: two constructions on the same report end alike in every field,
\* whatever the calendar date at each of them.
C3_Deterministic ==
    SecondEnded("same") =>
        /\ pc = first[1].pc
        /\ err = first[1].err
        /\ self = first[1].self

\* both constructions read the clock in the same month of the same year, or
\* neither read it
SameMonth(d1, d2) ==
    \/ d1 = None /\ d2 = None
    \/ /\ d1 # None /\ d2 # None
       /\ d1[1].year = d2[1].year
       /\ d1[1].month = d2[1].month

\* C3, amended: two constructions on the same report end alike in every field
\* when the calendar month is the same at both; at any dates station, AUTO
\* flag and remarks agree, and when both succeed every field but the
\* timestamp agrees.
C3_DeterministicWithinMonth ==
    SecondEnded("same") =>
        /\ SameMonth(first[1].d, d) =>
              /\ pc = first[1].pc
              /\ err = first[1].err
              /\ self = first[1].self
        /\ self.loc_code = first[1].self.loc_code
        /\ self.auto = first[1].self.auto
        /\ self.remarks = first[1].self.remarks
        /\ (pc = "done" /\ first[1].pc = "done") =>
              [self EXCEPT !.timestamp = None] = [first[1].self EXCEPT !.timestamp = None]

\* the same report has been decoded on two different days of one month
C3_Witness ==
    /\ SecondEnded("same")
    /\ pc = "done"
    /\ d # first[1].d
    /\ SameMonth(first[1].d, d)
    /\ self.timestamp # None

\* the token list holds no token that the stage's finder accepts
NoTimestampToken == \A i \in 1..Len(parts) : ~EndsWith(parts[i], <<"Z">>)

NoWindToken == \A i \in 1..Len(parts) : ~Contains(parts[i], <<"K", "T">>)

NoTempToken == \A i \in 1..Len(parts) : ~TempMatch(parts[i])

\* C4: a missing timestamp, wind or temperature group fails the call with one
\* and the same error kind (the one a missing timestamp raises), a kind that a
\* malformed located group never raises, and no observation is returned.
C4_MissingFieldKind ==
    pc # "header" =>
        /\ (NoTimestampToken \/ NoWindToken \/ NoTempToken) => pc # "done"
        /\ (pc = "raised" /\ raised_in = "timestamp") =>
              (err = "IndexError" <=> NoTimestampToken)
        /\ (pc = "raised" /\ raised_in = "wind") =>
              (err = "IndexError" <=> NoWindToken)
        /\ (pc = "raised" /\ raised_in = "temp") =>
              (err = "IndexError" <=> NoTempToken)

\* a wind group in its written form: dddssKT or dddssGggKT, ddd any three
\* characters
IsWindGroup(t) ==
    /\ EndsWith(t, <<"K", "T">>)
    /\ \/ Len(t) = 7 /\ IsDigit(t[4]) /\ IsDigit(t[5])
       \/ /\ Len(t) = 10 /\ IsDigit(t[4]) /\ IsDigit(t[5])
          /\ t[6] = "G" /\ IsDigit(t[7]) /\ IsDigit(t[8])

\* the wind stage has run
PastWind ==
    \/ pc \in {"temp", "cav", "ceil", "vis", "wx", "done"}
    \/ pc = "raised" /\ raised_in # "timestamp"

\* C5: with exactly one wind group in the report, whatever the station and the
\* other groups, digits ddd give direction ddd, speed ss and gust gg (0 without
\* G), VRB gives the variable-direction sentinel with the same speed and gust,
\* and any other ddd fails the call.
C5_WindDecoded ==
    \A i \in 1..Len(parts) :
        ( /\ PastWind
          /\ IsWindGroup(parts[i])
          /\ \A j \in 1..Len(parts) : IsWindGroup(parts[j]) => j = i ) =>
        LET t == parts[i]
            ddd == SubSeq(t, 1, 3)
            ss == 10 * DigitVal(t[4]) + DigitVal(t[5])
            gg == IF Len(t) = 10 THEN 10 * DigitVal(t[7]) + DigitVal(t[8]) ELSE 0
            decoded(dir) ==
                /\ raised_in # "wind"
                /\ self.winddir = Some(dir)
                /\ self.windspd = Some(ss)
                /\ self.windgust = Some(gg)
        IN  IF \A k \in 1..3 : IsDigit(ddd[k])
            THEN decoded([isint |-> TRUE, s |-> <<>>,
                          n |-> 100 * DigitVal(ddd[1]) + 10 * DigitVal(ddd[2])
                                + DigitVal(ddd[3])])
            ELSE IF ddd = <<"V", "R", "B">>
            THEN decoded([isint |-> FALSE, s |-> ddd, n |-> 0])
            ELSE pc = "raised" /\ raised_in = "wind"

\* C6: a report that decodes still decodes, to the same fields, when one of
\* the spaces in front of its RMK token is doubled.
C6_EmptyTokenTolerated ==
    (SecondEnded("space") /\ first[1].pc = "done") =>
        /\ pc = "done"
        /\ self = first[1].self

\* a report with cloud layers and weather has been decoded again with an empty
\* token in it
C6_Witness ==
    /\ SecondEnded("space")
    /\ first[1].pc = "done"
    /\ InList(parts, <<>>)
    /\ Len(self.clouds) > 0
    /\ wx.field # 0

\* display names back to their tables (no name belongs to both)
IsModName(nm) == \E i \in 1..Len(METAR_WXMODS) : METAR_WXMODS[i].name = nm

IsCodeName(nm) == \E i \in 1..Len(METAR_WXCODES) : METAR_WXCODES[i].name = nm

OrderOfName(nm) ==
    METAR_WXMODS[CHOOSE i \in 1..Len(METAR_WXMODS) : METAR_WXMODS[i].name = nm].order

\* parse_wx found a weather token and rendered it
Rendered == pc = "done" /\ "parse_wx" \in ran /\ wx.field # 0

KeyPieces == { k \in WxPieces : HasKey(METAR_WXCODES, k) \/ HasKey(METAR_WXMODS, k) }

KeySeqs == SeqsUpTo(KeyPieces, MaxWxPieces)

IsCodeKey(k) == HasKey(METAR_WXCODES, k)

IsModKey(k) == HasKey(METAR_WXMODS, k)

\* C9: parse_wx never raises and always leaves a string in weather; from a
\* token that is a concatenation of table keys it emits exactly those keys,
\* codes and modifiers each in their order of occurrence; what it emits from
\* any token are table keys.
C9_WxNeverFails ==
    /\ raised_in # "wx"
    /\ "parse_wx" \in ran =>
          /\ pc = "done" /\ err = ""
          /\ self.weather # None
          /\ writes["weather"] = 1
          /\ \A k \in 1..Len(wx.codes) : IsCodeKey(wx.codes[k])
          /\ \A k \in 2..Len(wx.modifiers) : IsModKey(wx.modifiers[k])
          /\ wx.field # 0 =>
                \A ks \in KeySeqs :
                    Flatten(ks) = parts[wx.field] =>
                        /\ wx.codes = SelectSeq(ks, IsCodeKey)
                        /\ wx.modifiers = <<None>> \o SelectSeq(ks, IsModKey)

\* a token of modifier, code and a character of neither table has been
\* consumed
C9_Witness ==
    /\ "parse_wx" \in ran
    /\ wx.field # 0
    /\ parts[wx.field] = <<"+", "R", "A", "X">>
    /\ wx.codes = << <<"R", "A">> >>
    /\ self.weather = Some("heavy rain")

\* parse_ceil has run
PastCeil ==
    \/ pc \in {"vis", "wx", "done"} /\ "parse_ceil" \in ran
    \/ pc = "raised" /\ raised_in \in {"ceil", "vis"}

\* C8: without CAVOK, NSC and SKC every token that holds a CLOUDS key yields
\* one layer, in token order: the name of its first three characters and 100
\* times the integer behind them; with NSC or SKC there are no layers.
C8_OneLayerPerToken ==
    PastCeil =>
        IF InList(parts, tokNSC) \/ InList(parts, tokSKC)
        THEN self.clouds = <<>>
        ELSE LET q == SelectSeq(parts, IsCloudToken)
             IN  /\ Len(self.clouds) = Len(q)
                 /\ \A k \in 1..Len(q) :
                       /\ HasKey(CLOUDS, Prefix(q[k], 3))
                       /\ PyInt(Suffix(q[k], 3)).ok
                       /\ self.clouds[k] =
                             [description |-> Lookup(CLOUDS, Prefix(q[k], 3)).name,
                              altitude |-> 100 * PyInt(Suffix(q[k], 3)).val]

\* C10: from its first stage to its return or failure parse assigns each
\* output field at most once, and never modifies the token list of the split.
C10_WriteOnce ==
    /\ \A f \in Fields : writes[f] <= 1
    /\ pc # "header" => parts = Split(metar_string, " ")

\* the wind token parse decodes, without its unit
WindSegment ==
    LET found == SelectIdx(parts, [i \in 1..Len(parts) |-> Contains(parts[i], <<"K", "T">>)], 1)
    IN  DropLast(parts[found[1]], 2)

\* C10, amended: parse assigns each output field at most once, except
\* wind_gust, assigned a second time exactly when the wind group holds a G, and
\* wind_direction, assigned a second time exactly when its three characters
\* are an integer; cloud_layers is assigned once and then only appended to; the
\* token list of the split is never modified.
C10_WritesBounded ==
    /\ \A f \in Fields \ {"windgust", "winddir"} : writes[f] <= 1
    /\ writes["windgust"] <= 2
    /\ writes["winddir"] <= 2
    /\ writes["windgust"] = 2 => "G" \in Range(WindSegment)
    /\ writes["winddir"] = 2 => self.winddir[1].isint
    /\ (writes["windspd"] = 1 /\ self.winddir[1].isint) => writes["winddir"] = 2
    /\ (writes["windspd"] = 1 /\ "G" \in Range(WindSegment)) => writes["windgust"] = 2
    /\ pc # "header" => parts = Split(metar_string, " ")

\* a report with a gust, a numeric direction and cloud layers has been decoded
C10_Witness ==
    /\ pc = "done"
    /\ writes["windgust"] = 2
    /\ writes["winddir"] = 2
    /\ writes["clouds"] = 1
    /\ \A f \in Fields \ {"windgust", "winddir"} : writes[f] = 1

====
